---- MODULE Spec2Model ----
(***************************************************************************)
(* Model of apps/api/src/index.ts of better-analytics: the three ingestion *)
(* handlers (/ingest, /log, /track-404) with their quota gate, enrichment, *)
(* sanitizer, store insert and real-time notification, and the two         *)
(* localization handlers with their in-process translation cache.          *)
(*                                                                         *)
(* JavaScript values are tagged records: [t |-> "undefined"],              *)
(* [t |-> "null"], [t |-> "string", v |-> s], [t |-> "number", v |-> n],   *)
(* [t |-> "array", v |-> <<..>>], [t |-> "object", v |-> [key |-> value]]. *)
(***************************************************************************)
EXTENDS Integers, Sequences, FiniteSets, TLC

VARIABLES
    \* ---- one ingestion request (handlers share no state across requests)
    pc,            \* position of the request in derive / handler
    kind,          \* "ingest" | "log" | "track404"
    body,          \* parsed JSON body: function from supplied keys to values
    uaHeader,      \* the request's user-agent header ("" when absent: line 178)
    hasToken,      \* whether an access token came with the request
    userId,        \* result of derive: a value, Null when anonymous
    quotaAnswer,   \* what Autumn.check did for this request
    isAllowed,     \* result of checkQuota
    geo,           \* result of getGeoData
    data,          \* errorData / logData / data as assembled by the handler
    cleaned,       \* sanitizedErrorData / cleanedData (/log has no such value)
    inserted,      \* values[0] of the clickhouse.insert call, and its table
    calls,         \* external calls made for this request, in order
    httpStatus,    \* set.status (200 unless a handler or onError sets it)
    response,      \* the handler's returned body
    \* ---- translation cache and the localization requests in flight
    translationCache, \* Map<string, {result, timestamp}>
    now,              \* Date.now()
    ticks,            \* clock advances so far
    reqs,             \* the localization requests so far, in order of arrival
    seq               \* number of cache lookups and cache writes so far

ingestVars == <<pc, kind, body, uaHeader, hasToken, userId, quotaAnswer, isAllowed, geo, data, cleaned,
                inserted, calls, httpStatus, response>>
cacheVars  == <<translationCache, now, ticks, reqs, seq>>
vars       == <<ingestVars, cacheVars>>

-----------------------------------------------------------------------------
(* Bounds *)

\* a request body supplies at most this many optional fields
MaxSupplied == 1
\* the clock advances at most this many times
MaxTicks == 2
\* at most this many localization requests arrive
MaxRequests == 2

-----------------------------------------------------------------------------
(* JavaScript values *)

Undefined == [t |-> "undefined"]
Null      == [t |-> "null"]
Str(s)    == [t |-> "string", v |-> s]
Num(n)    == [t |-> "number", v |-> n]
Arr(s)    == [t |-> "array", v |-> s]
Obj(f)    == [t |-> "object", v |-> f]
Bool(b)   == [t |-> "boolean", v |-> b]

\* JS truthiness (the !x, x || y and if (x) of the source)
Truthy(x) ==
    CASE x.t = "undefined" -> FALSE
      [] x.t = "null"      -> FALSE
      [] x.t = "string"    -> x.v # ""
      [] x.t = "number"    -> x.v # 0
      [] x.t = "boolean"   -> x.v
      [] OTHER             -> TRUE

\* a ?? b
Coalesce(a, b) == IF a.t \in {"undefined", "null"} THEN b ELSE a

\* a || b
OrElse(a, b) == IF Truthy(a) THEN a ELSE b

\* obj.key on a plain object: undefined when the key is not an own property
Get(o, k) == IF k \in DOMAIN o THEN o[k] ELSE Undefined

\* { ...a, ...b }: keys of b override keys of a
Spread(a, b) ==
    [k \in DOMAIN a \cup DOMAIN b |-> IF k \in DOMAIN b THEN b[k] ELSE a[k]]

-----------------------------------------------------------------------------
(* toCHDateTime64 (lines 93-101) *)

\* a Date object; v holds the local-time components getFullYear() .. getMilliseconds()
DateOf(c) == [t |-> "date", v |-> c]

\* new Date() at the time of the request
NowDate == DateOf([y |-> 2025, mo |-> 10, d |-> 5, h |-> 17, mi |-> 9, s |-> 30, ms |-> 42])

\* date strings a caller may send, and the one that does not parse
ValidDateString   == "2024-01-02T03:04:05.006"
InvalidDateString == "not-a-date"

\* new Date(date).getTime() is NaN
IsInvalidDate(date) == date.t = "string" /\ date.v # ValidDateString

\* new Date(date), for a date that parses
NewDate(date) ==
    IF date.t = "date" THEN date.v
    ELSE [y |-> 2024, mo |-> 0, d |-> 2, h |-> 3, mi |-> 4, s |-> 5, ms |-> 6]

DigitString(d) ==
    CASE d = 0 -> "0" [] d = 1 -> "1" [] d = 2 -> "2" [] d = 3 -> "3" [] d = 4 -> "4"
      [] d = 5 -> "5" [] d = 6 -> "6" [] d = 7 -> "7" [] d = 8 -> "8" [] d = 9 -> "9"

\* String(n) for n >= 0
RECURSIVE NumberToString(_)
NumberToString(n) ==
    IF n < 10 THEN DigitString(n)
    ELSE NumberToString(n \div 10) \o DigitString(n % 10)

RECURSIVE NumberOfDigits(_)
NumberOfDigits(n) == IF n < 10 THEN 1 ELSE 1 + NumberOfDigits(n \div 10)

RECURSIVE Zeros(_)
Zeros(k) == IF k <= 0 THEN "" ELSE "0" \o Zeros(k - 1)

\* const pad = (n, z = 2) => String(n).padStart(z, "0")
pad(n, z) == Zeros(z - NumberOfDigits(n)) \o NumberToString(n)

toCHDateTime64(date) ==
    IF date.t # "date" /\ ~Truthy(date) THEN Null
    ELSE IF IsInvalidDate(date) THEN Null
    ELSE LET d == NewDate(date) IN
         Str(NumberToString(d.y) \o "-" \o pad(d.mo + 1, 2) \o "-" \o pad(d.d, 2)
             \o " " \o pad(d.h, 2) \o ":" \o pad(d.mi, 2) \o ":" \o pad(d.s, 2)
             \o "." \o pad(d.ms, 3))

-----------------------------------------------------------------------------
(* replaceUndefinedWithNull (lines 78-91) *)

RECURSIVE replaceUndefinedWithNull(_)
replaceUndefinedWithNull(obj) ==
    IF obj.t = "array"
    THEN Arr([i \in DOMAIN obj.v |-> replaceUndefinedWithNull(obj.v[i])])
    ELSE IF obj.t = "object"
    THEN Obj([k \in DOMAIN obj.v |->
                 IF obj.v[k].t = "undefined" THEN Null
                 ELSE replaceUndefinedWithNull(obj.v[k])])
    ELSE obj

-----------------------------------------------------------------------------
(* checkQuota (lines 49-62) *)

\* what `await Autumn.check(..)` can do: answer allowed true / false, answer
\* without a usable data.allowed (data missing, or allowed missing), or throw
CheckOutcomes == {"allowed", "denied", "no_data", "no_allowed", "throws"}

\* the `data` of the awaited result
CheckData(outcome) ==
    CASE outcome = "allowed"    -> Obj([allowed |-> Bool(TRUE)])
      [] outcome = "denied"     -> Obj([allowed |-> Bool(FALSE)])
      [] outcome = "no_allowed" -> Obj([code |-> Str("feature_not_found")])
      [] OTHER                  -> Undefined

\* data?.allowed
OptionalAllowed(d) == IF d.t \in {"undefined", "null"} THEN Undefined ELSE Get(d.v, "allowed")

\* the boolean checkQuota resolves to
checkQuota(outcome) ==
    IF outcome = "throws" THEN TRUE
    ELSE LET a == OptionalAllowed(CheckData(outcome)) IN
         IF a.t \in {"undefined", "null"} THEN FALSE ELSE a.v

-----------------------------------------------------------------------------
(* Request inputs *)

Kinds == {"ingest", "log", "track404"}

\* user-agent headers a request may carry; "" is what line 178 makes of none
MobileUA  == "Mozilla/5.0 (iPhone; CPU iPhone OS 17_0 like Mac OS X) Safari/604.1"
DesktopUA == "Mozilla/5.0 (X11; Linux x86_64) Chrome/120.0.0.0"
UserAgents == {"", MobileUA, DesktopUA}

\* UAParser(userAgent): nothing is recognised in "", everything in the mobile
\* agent, and a desktop agent has no device.type
UAParser(userAgent) ==
    CASE userAgent = MobileUA ->
            [browser |-> [name |-> Str("Mobile Safari"), version |-> Str("17.0")],
             os      |-> [name |-> Str("iOS"), version |-> Str("17.0")],
             device  |-> [type |-> Str("mobile")]]
      [] userAgent = DesktopUA ->
            [browser |-> [name |-> Str("Chrome"), version |-> Str("120.0.0.0")],
             os      |-> [name |-> Str("Linux"), version |-> Str("x86_64")],
             device  |-> [type |-> Undefined]]
      [] OTHER ->
            [browser |-> [name |-> Undefined, version |-> Undefined],
             os      |-> [name |-> Undefined, version |-> Undefined],
             device  |-> [type |-> Undefined]]

\* urls a caller may send
PageUrl == "https://app.example.com/checkout"
BadUrl  == "not a url"

\* body.url ? parseDomain(body.url) : null, then domainInfo?.domain
DomainOf(url) ==
    IF ~Truthy(url) THEN Undefined
    ELSE IF url.v = PageUrl THEN Str("example.com")
    ELSE Null

\* extractIpFromRequest(request)
ClientIp == Str("203.0.113.7")

GeoFields == {"country", "region", "city", "org", "postal", "loc"}

\* getGeoData(ip): the attributes found, or none of them on a failed lookup
GeoFound  == [f \in GeoFields |-> Str("geo:" \o f)]
GeoFailed == [f \in GeoFields |-> Null]
GeoResults == {GeoFound, GeoFailed}

\* the value a caller sends for a field it supplies
CallerValues(f) ==
    CASE f = "url"               -> {Str(PageUrl), Str(BadUrl)}
      [] f = "source"            -> {Str("caller"), Str("")}
      [] f = "device_type"       -> {Str("caller"), Null}
      [] f = "tags"              -> {Arr(<<Str("checkout")>>)}
      [] f = "occurrence_count"  -> {Num(7)}
      [] f \in {"first_occurrence", "last_occurrence", "resolved_at"}
                                 -> {Str(ValidDateString), Str(InvalidDateString)}
      [] OTHER                   -> {Str("caller")}

\* enrichment fields of the record (section 3 of the data model)
EnrichmentFields ==
    {"user_agent", "browser_name", "browser_version", "os_name", "os_version",
     "device_type", "source", "ip_address"} \cup GeoFields

\* optional fields of the three bodies (client_id is required)
OptionalFields(k) ==
    CASE k = "ingest" ->
            {"message", "severity", "error_type", "url", "tags", "occurrence_count",
             "first_occurrence", "last_occurrence", "resolved_at"}
            \cup EnrichmentFields
      [] k = "log" ->
            {"message", "level", "source", "context", "environment", "session_id",
             "user_id"}
      [] k = "track404" ->
            {"url", "referrer", "user_agent", "ip_address", "country", "region",
             "city"}

AllCallerValues == UNION {CallerValues(f) : f \in OptionalFields("ingest")}

\* the subsets of S with at most n elements
RECURSIVE SubsetsUpTo(_, _)
SubsetsUpTo(S, n) ==
    IF n = 0 THEN {{}}
    ELSE LET P == SubsetsUpTo(S, n - 1) IN P \cup {T \cup {x} : T \in P, x \in S}

\* the JSON bodies of kind k that supply at most MaxSupplied optional fields
Bodies(k) ==
    UNION {
        {Spread([f \in {"client_id"} |-> Str("client-1")], b) :
            b \in {c \in [S -> AllCallerValues] : \A f \in S : c[f] \in CallerValues(f)}}
        : S \in SubsetsUpTo(OptionalFields(k), MaxSupplied)}

-----------------------------------------------------------------------------
(* The records the handlers assemble *)

\* randomUUID()
NewId == Str("3f0c2b1e-uuid")

\* errorData of /ingest (lines 185-211)
ErrorData(b, ua, g) ==
    LET uaResult == UAParser(ua)
        now_     == NowDate
    IN Spread(Spread([f \in {"id"} |-> NewId], b),
        [tags             |-> Coalesce(Get(b, "tags"), Arr(<<>>)),
         occurrence_count |-> Coalesce(Get(b, "occurrence_count"), Num(1)),
         source           |-> OrElse(Get(b, "source"), DomainOf(Get(b, "url"))),
         user_agent       |-> Str(ua),
         browser_name     |-> Coalesce(Get(b, "browser_name"), uaResult.browser.name),
         browser_version  |-> Coalesce(Get(b, "browser_version"), uaResult.browser.version),
         os_name          |-> Coalesce(Get(b, "os_name"), uaResult.os.name),
         os_version       |-> Coalesce(Get(b, "os_version"), uaResult.os.version),
         device_type      |-> Coalesce(Coalesce(Get(b, "device_type"), uaResult.device.type),
                                       Str("desktop")),
         ip_address       |-> ClientIp,
         country          |-> g.country,
         region           |-> g.region,
         city             |-> g.city,
         org              |-> g.org,
         postal           |-> g.postal,
         loc              |-> g.loc,
         first_occurrence |-> OrElse(toCHDateTime64(Get(b, "first_occurrence")),
                                     toCHDateTime64(now_)),
         last_occurrence  |-> OrElse(toCHDateTime64(Get(b, "last_occurrence")),
                                     toCHDateTime64(now_)),
         resolved_at      |-> toCHDateTime64(Get(b, "resolved_at")),
         created_at       |-> toCHDateTime64(now_),
         updated_at       |-> toCHDateTime64(now_)])

\* logData of /log (lines 261-265)
LogData(b) ==
    Spread(Spread([f \in {"id"} |-> NewId], b),
           [created_at |-> toCHDateTime64(NowDate)])

\* data of /track-404 (lines 317-326)
NotFoundData(b, ua, g) ==
    Spread(Spread([f \in {"id"} |-> NewId], b),
        [user_agent |-> Str(ua),
         ip_address |-> ClientIp,
         country    |-> g.country,
         region     |-> g.region,
         city       |-> g.city,
         created_at |-> toCHDateTime64(NowDate)])

TableOf(k) ==
    CASE k = "ingest" -> "errors" [] k = "log" -> "logs" [] k = "track404" -> "not_found_pages"

\* the message of the 429 response
QuotaMessage(k) ==
    CASE k = "ingest"   -> "Quota exceeded for error ingestion."
      [] k = "log"      -> "Quota exceeded for log ingestion."
      [] k = "track404" -> "Quota exceeded for 404 tracking."

\* the message of the handler's own catch block (/track-404 has none)
CatchMessage(k) ==
    CASE k = "ingest" -> "Failed to process error" [] k = "log" -> "Failed to process log"

-----------------------------------------------------------------------------
(* Collaborators' failures and how they surface *)

\* messages of the errors clickhouse.insert may throw
InsertErrors == {"connect ECONNREFUSED 127.0.0.1:8123", "Unauthorized: wrong credentials"}

\* errorMessage.includes("Unauthorized")
IncludesUnauthorized(message) == message = "Unauthorized: wrong credentials"

\* .onError (lines 424-441): status and body for an error no handler caught
onError(message) ==
    IF IncludesUnauthorized(message)
    THEN [http |-> 401, resp |-> [status |-> "error", message |-> message]]
    ELSE [http |-> 500, resp |-> [status |-> "error", message |-> "An internal error occurred."]]

\* how an error thrown after the quota check ends the request: /ingest and /log
\* catch it and return a body without touching set.status, /track-404 has no
\* try block and leaves it to onError
Thrown(k, status, message) ==
    IF k \in {"ingest", "log"}
    THEN [http |-> status, resp |-> [status |-> "error", message |-> CatchMessage(k)]]
    ELSE onError(message)

\* sendRealTimeEvent without its catch block: a failed send rejects the promise
sendRealTimeEvent_Rethrows(sendOk) == IF sendOk THEN "resolved" ELSE "rejected"

\* sendRealTimeEvent (lines 64-76): the promise resolves whether channel.send
\* succeeded or threw
sendRealTimeEvent(sendOk) == "resolved"

\* the handler without its early return
ShortCircuits_Never(allowed) == FALSE

\* if (!isAllowed) { set.status = 429; return ... }
ShortCircuits(allowed) == ~allowed

\* the feature tag of the quota check
FeatureOf(k) ==
    CASE k = "ingest" -> "error" [] k = "log" -> "log" [] k = "track404" -> "404_page_tracking"

Call(op, what, ok) == [op |-> op, what |-> what, ok |-> ok]

-----------------------------------------------------------------------------
(* Ingestion: one request from arrival to response *)

IngestInit ==
    /\ pc = "idle"
    /\ kind = "none"
    /\ body = Undefined
    /\ uaHeader = ""
    /\ hasToken = FALSE
    /\ userId = Undefined
    /\ quotaAnswer = "none"
    /\ isAllowed = Undefined
    /\ geo = Undefined
    /\ data = Undefined
    /\ cleaned = Undefined
    /\ inserted = Undefined
    /\ calls = <<>>
    /\ httpStatus = 200
    /\ response = Undefined

\* a request arrives on one of the three endpoints
Receive ==
    /\ pc = "idle"
    /\ \E k \in Kinds, ua \in UserAgents, tok \in BOOLEAN :
         \E b \in Bodies(k) :
            /\ kind' = k
            /\ body' = b
            /\ uaHeader' = ua
            /\ hasToken' = tok
    /\ pc' = "derive"
    /\ UNCHANGED <<userId, quotaAnswer, isAllowed, geo, data, cleaned, inserted, calls,
                   httpStatus, response, cacheVars>>

\* .derive (lines 117-162) without an access token: no lookup, userId null
DeriveAnonymous ==
    /\ pc = "derive"
    /\ ~hasToken
    /\ userId' = Null
    /\ pc' = "quota"
    /\ UNCHANGED <<kind, body, uaHeader, hasToken, quotaAnswer, isAllowed, geo, data, cleaned,
                   inserted, calls, httpStatus, response, cacheVars>>

\* .derive with a token: await db.query.user.findFirst, which finds the user,
\* finds none, or throws (caught: userId null)
DeriveLookup ==
    /\ pc = "derive"
    /\ hasToken
    /\ \E outcome \in {"found", "none", "throws"} :
         /\ calls' = Append(calls, Call("auth", "user", outcome # "throws"))
         /\ userId' = IF outcome = "found" THEN Str("user-1") ELSE Null
    /\ pc' = "quota"
    /\ UNCHANGED <<kind, body, uaHeader, hasToken, quotaAnswer, isAllowed, geo, data, cleaned,
                   inserted, httpStatus, response, cacheVars>>

\* await checkQuota(feature, body.client_id), then the handler up to its next
\* await: the 429 return, or the assembly of logData (/log), or the call of
\* getGeoData (/ingest, /track-404)
QuotaCheck ==
    /\ pc = "quota"
    /\ \E outcome \in CheckOutcomes :
         LET allowed == checkQuota(outcome) IN
         /\ calls' = Append(calls, Call("quota", FeatureOf(kind), outcome # "throws"))
         /\ quotaAnswer' = outcome
         /\ isAllowed' = Bool(allowed)
         /\ IF ShortCircuits(allowed)
            THEN /\ httpStatus' = 429
                 /\ response' = [status |-> "error", message |-> QuotaMessage(kind)]
                 /\ pc' = "done"
                 /\ data' = data
            ELSE /\ UNCHANGED <<httpStatus, response>>
                 /\ IF kind = "log"
                    THEN data' = Obj(LogData(body)) /\ pc' = "insert"
                    ELSE data' = data /\ pc' = "geo"
    /\ UNCHANGED <<kind, body, uaHeader, hasToken, userId, geo, cleaned, inserted,
                   cacheVars>>

\* await getGeoData(ip), then the record and its sanitized copy
GeoLookup ==
    /\ pc = "geo"
    /\ \E g \in GeoResults :
         /\ geo' = g
         /\ calls' = Append(calls, Call("geo", ClientIp.v, g = GeoFound))
         /\ data' = IF kind = "ingest"
                    THEN Obj(ErrorData(body, uaHeader, g))
                    ELSE Obj(NotFoundData(body, uaHeader, g))
    /\ cleaned' = replaceUndefinedWithNull(data')
    /\ pc' = "insert"
    /\ UNCHANGED <<kind, body, uaHeader, hasToken, userId, quotaAnswer, isAllowed, inserted,
                   httpStatus, response, cacheVars>>

\* the value the handler puts in `values` of clickhouse.insert
InsertValue == IF kind = "log" THEN data ELSE cleaned

Success == [status |-> "success", id |-> data.v.id]

\* where the handler goes once the insert resolved
AfterInsert ==
    CASE kind = "ingest"   -> IF Truthy(userId) THEN "notify_user" ELSE "done"
      [] kind = "log"      -> IF Truthy(userId) THEN "notify_user" ELSE "notify_client"
      [] kind = "track404" -> "notify_client"

\* await clickhouse.insert(..) resolves
InsertOk ==
    /\ pc = "insert"
    /\ inserted' = [table |-> TableOf(kind), row |-> InsertValue]
    /\ calls' = Append(calls, Call("insert", TableOf(kind), TRUE))
    /\ pc' = AfterInsert
    /\ response' = IF AfterInsert = "done" THEN Success ELSE response
    /\ UNCHANGED <<kind, body, uaHeader, hasToken, userId, quotaAnswer, isAllowed, geo, data,
                   cleaned, httpStatus, cacheVars>>

\* a failed insert that is logged and then falls through to the notification
InsertFails_FallsThrough ==
    /\ pc = "insert"
    /\ inserted' = [table |-> TableOf(kind), row |-> InsertValue]
    /\ calls' = Append(calls, Call("insert", TableOf(kind), FALSE))
    /\ pc' = "notify_client"
    /\ UNCHANGED <<kind, body, uaHeader, hasToken, userId, quotaAnswer, isAllowed, geo,
                   data, cleaned, httpStatus, response, cacheVars>>

\* await clickhouse.insert(..) throws
InsertFails ==
    /\ pc = "insert"
    /\ \E message \in InsertErrors :
         LET out == Thrown(kind, httpStatus, message) IN
         /\ httpStatus' = out.http
         /\ response' = out.resp
    /\ inserted' = [table |-> TableOf(kind), row |-> InsertValue]
    /\ calls' = Append(calls, Call("insert", TableOf(kind), FALSE))
    /\ pc' = "done"
    /\ UNCHANGED <<kind, body, uaHeader, hasToken, userId, quotaAnswer, isAllowed, geo, data,
                   cleaned, cacheVars>>

\* the handler after `await sendRealTimeEvent(..)` settled: `then` is where it
\* goes when the promise resolved
AfterSend(settled, then) ==
    IF settled = "resolved"
    THEN /\ pc' = then
         /\ response' = IF then = "done" THEN Success ELSE response
         /\ httpStatus' = httpStatus
    ELSE LET out == Thrown(kind, httpStatus, "channel.send failed") IN
         /\ pc' = "done"
         /\ response' = out.resp
         /\ httpStatus' = out.http

\* if (userId) await sendRealTimeEvent(userId, "error_ingested" | "log_ingested", ..)
NotifyUser ==
    /\ pc = "notify_user"
    /\ \E sendOk \in BOOLEAN :
         /\ calls' = Append(calls,
                Call("notify", IF kind = "ingest" THEN "error_ingested" ELSE "log_ingested",
                     sendOk))
         /\ AfterSend(sendRealTimeEvent(sendOk),
                      IF kind = "log" THEN "notify_client" ELSE "done")
    /\ UNCHANGED <<kind, body, uaHeader, hasToken, userId, quotaAnswer, isAllowed, geo, data,
                   cleaned, inserted, cacheVars>>

\* await sendRealTimeEvent(body.client_id, "new-log" | "new-404", ..)
NotifyClient ==
    /\ pc = "notify_client"
    /\ \E sendOk \in BOOLEAN :
         /\ calls' = Append(calls,
                Call("notify", IF kind = "log" THEN "new-log" ELSE "new-404", sendOk))
         /\ AfterSend(sendRealTimeEvent(sendOk), "done")
    /\ UNCHANGED <<kind, body, uaHeader, hasToken, userId, quotaAnswer, isAllowed, geo, data,
                   cleaned, inserted, cacheVars>>

\* the response is sent; the request's context is gone
Respond ==
    /\ pc = "done"
    /\ pc' = "idle"
    /\ kind' = "none"
    /\ body' = Undefined
    /\ uaHeader' = ""
    /\ hasToken' = FALSE
    /\ userId' = Undefined
    /\ quotaAnswer' = "none"
    /\ isAllowed' = Undefined
    /\ geo' = Undefined
    /\ data' = Undefined
    /\ cleaned' = Undefined
    /\ inserted' = Undefined
    /\ calls' = <<>>
    /\ httpStatus' = 200
    /\ response' = Undefined
    /\ UNCHANGED cacheVars

CacheInit ==
    /\ translationCache = <<>>
    /\ now = 0
    /\ ticks = 0
    /\ reqs = <<>>
    /\ seq = 0

IngestNext ==
    \/ Receive
    \/ DeriveAnonymous
    \/ DeriveLookup
    \/ QuotaCheck
    \/ GeoLookup
    \/ InsertOk
    \/ InsertFails
    \/ NotifyUser
    \/ NotifyClient
    \/ Respond

Init == IngestInit /\ CacheInit

SpecIngest == Init /\ [][IngestNext]_vars

-----------------------------------------------------------------------------
(* Translation cache (lines 20-47) *)

\* const CACHE_DURATION = 5 * 60 * 1000
CACHE_DURATION == 5 * 60 * 1000

\* a content object of /localization/object: its properties in insertion order
Content(props) == [t |-> "object", props |-> props]

\* JSON.stringify of an object whose values are strings
RECURSIVE StringifyProps(_)
StringifyProps(props) ==
    IF props = <<>> THEN ""
    ELSE "\"" \o Head(props).k \o "\":\"" \o Head(props).v \o "\""
         \o (IF Len(props) > 1 THEN "," ELSE "") \o StringifyProps(Tail(props))

JSONstringify(content) == "{" \o StringifyProps(content.props) \o "}"

getCacheKey(content, sourceLocale, targetLocale) ==
    LET contentStr == IF content.t = "string" THEN content.v ELSE JSONstringify(content)
    IN contentStr \o "-" \o sourceLocale \o "-" \o targetLocale

\* getCachedResult with the age compared by <= : an entry of exactly
\* CACHE_DURATION is still served
getCachedResult_Inclusive(c, cacheKey, t) ==
    IF cacheKey \in DOMAIN c /\ t - c[cacheKey].timestamp <= CACHE_DURATION
    THEN [ret |-> c[cacheKey].result, cache |-> c]
    ELSE IF cacheKey \in DOMAIN c
    THEN [ret |-> Null, cache |-> [k \in DOMAIN c \ {cacheKey} |-> c[k]]]
    ELSE [ret |-> Null, cache |-> c]

\* getCachedResult at time t on cache c: the value returned and the cache left
getCachedResult(c, cacheKey, t) ==
    IF cacheKey \in DOMAIN c /\ t - c[cacheKey].timestamp < CACHE_DURATION
    THEN [ret |-> c[cacheKey].result, cache |-> c]
    ELSE IF cacheKey \in DOMAIN c
    THEN [ret |-> Null, cache |-> [k \in DOMAIN c \ {cacheKey} |-> c[k]]]
    ELSE [ret |-> Null, cache |-> c]

\* setCachedResult that loses the write
setCachedResult_Dropped(c, cacheKey, result, t) == c

\* setCachedResult at time t on cache c
setCachedResult(c, cacheKey, result, t) ==
    [k \in DOMAIN c \cup {cacheKey} |->
        IF k = cacheKey THEN [result |-> result, timestamp |-> t] ELSE c[k]]

-----------------------------------------------------------------------------
(* The localization handlers (lines 347-423) *)

\* bodies of /localization: no key, a key with the default language, and a
\* key with a language
TextBodies ==
    {[key |-> "",       language |-> Undefined],
     [key |-> "a-en-b", language |-> Undefined],
     [key |-> "a",      language |-> Str("b-en-en")]}

\* bodies of /localization/object: no content, and content with a target locale
ObjectBodies ==
    {[content |-> Undefined, sourceLocale |-> Undefined, targetLocale |-> Undefined],
     [content |-> Content(<<[k |-> "title", v |-> "a"]>>),
      sourceLocale |-> Undefined, targetLocale |-> Str("fr")]}

\* a destructuring default: `x = "en"` applies to undefined only
Default(x, d) == IF x.t = "undefined" THEN d ELSE x

\* lingoDotDev.localizeText(text, {sourceLocale, targetLocale}): a translation
\* of the text, which may be the empty string
TextResults(text, sourceLocale, targetLocale) ==
    {Str(""), Str("[" \o targetLocale \o "] " \o text)}

\* lingoDotDev.localizeObject(content, {sourceLocale, targetLocale})
ObjectResults(content, sourceLocale, targetLocale) ==
    {Content([i \in DOMAIN content.props |->
                [k |-> content.props[i].k,
                 v |-> "[" \o targetLocale \o "] " \o content.props[i].v]])}

\* the clock advances by half the expiry window at a time, so that an entry is
\* seen at age 0, at half the window, at exactly the window, and beyond it
TickStep == CACHE_DURATION \div 2

Tick ==
    /\ ticks < MaxTicks
    /\ now' = now + TickStep
    /\ ticks' = ticks + 1
    /\ UNCHANGED <<translationCache, reqs, seq, ingestVars>>

\* a request as it is after the handler's first, synchronous part: validation,
\* getCacheKey, getCachedResult, and either a response or the translator call
Arrived(endpoint, content, sourceLocale, targetLocale, callTarget, valid) ==
    LET cacheKey == getCacheKey(content, sourceLocale, targetLocale)
        got      == getCachedResult(translationCache, cacheKey, now)
        age      == IF cacheKey \in DOMAIN translationCache
                    THEN now - translationCache[cacheKey].timestamp ELSE -1
    IN IF ~valid
       THEN [req |-> [endpoint |-> endpoint, state |-> "done", http |-> 400,
                      result |-> Undefined, invoked |-> FALSE, hit |-> FALSE],
             cache |-> translationCache, looked |-> FALSE]
       ELSE [req |-> [endpoint |-> endpoint, content |-> content,
                      sourceLocale |-> sourceLocale, targetLocale |-> targetLocale,
                      callTarget |-> callTarget, cacheKey |-> cacheKey, at |-> now,
                      age |-> age,
                      lookupSeq |-> seq + 1, storeSeq |-> 0, storedAt |-> 0,
                      state |-> IF Truthy(got.ret) THEN "done" ELSE "awaiting",
                      http |-> 200, cachedResult |-> got.ret,
                      result |-> IF Truthy(got.ret) THEN got.ret ELSE Undefined,
                      invoked |-> ~Truthy(got.ret), hit |-> Truthy(got.ret)],
             cache |-> got.cache, looked |-> TRUE]

Accept(a) ==
    /\ reqs' = Append(reqs, a.req)
    /\ translationCache' = a.cache
    /\ seq' = IF a.looked THEN seq + 1 ELSE seq
    /\ UNCHANGED <<now, ticks, ingestVars>>

\* POST /localization up to its first await (lines 347-372)
LocalizeText ==
    /\ Len(reqs) < MaxRequests
    /\ \E b \in TextBodies :
         LET language == Default(b.language, Str("en"))
             target   == OrElse(language, Str("en")).v
         IN Accept(Arrived("/localization", Str(b.key), "en", target, target,
                           Truthy(Str(b.key))))

\* POST /localization/object up to its first await (lines 383-413): the
\* translator is called with targetLocale "ar" whatever the request names
LocalizeObject ==
    /\ Len(reqs) < MaxRequests
    /\ \E b \in ObjectBodies :
         LET sourceLocale == Default(b.sourceLocale, Str("en")).v
             targetLocale == Default(b.targetLocale, Str("en")).v
         IN Accept(Arrived("/localization/object", b.content, sourceLocale, targetLocale,
                           "ar", b.content.t = "object"))

TranslatorResults(r) ==
    IF r.endpoint = "/localization"
    THEN TextResults(r.content.v, r.sourceLocale, r.callTarget)
    ELSE ObjectResults(r.content, r.sourceLocale, r.callTarget)

\* the translator call of request i resolves: setCachedResult, then { result }
TranslatorReturns ==
    \E i \in DOMAIN reqs :
        /\ reqs[i].state = "awaiting"
        /\ \E result \in TranslatorResults(reqs[i]) :
             /\ translationCache' =
                    setCachedResult(translationCache, reqs[i].cacheKey, result, now)
             /\ reqs' = [reqs EXCEPT ![i] = [@ EXCEPT !.state = "done",
                                                      !.result = result,
                                                      !.storeSeq = seq + 1,
                                                      !.storedAt = now]]
        /\ seq' = seq + 1
        /\ UNCHANGED <<now, ticks, ingestVars>>

\* the translator call of request i throws: logged, 500, nothing cached
TranslatorThrows ==
    \E i \in DOMAIN reqs :
        /\ reqs[i].state = "awaiting"
        /\ reqs' = [reqs EXCEPT ![i] = [@ EXCEPT !.state = "done", !.http = 500]]
        /\ UNCHANGED <<translationCache, now, ticks, seq, ingestVars>>

CacheNext ==
    \/ Tick
    \/ LocalizeText
    \/ LocalizeObject
    \/ TranslatorReturns
    \/ TranslatorThrows

SpecCache == Init /\ [][CacheNext]_vars

\* The lookups of a process that has been serving for a while: the cache
\* holds entries written at time 0 under the keys of earlier requests, and
\* requests arrive as the clock advances.
WarmEntries ==
    [text   |-> {[key |-> getCacheKey(Str("a-en-b"), "en", "en"),
                  result |-> r, timestamp |-> 0] :
                    r \in TextResults("a-en-b", "en", "en")},
     object |-> {[key |-> getCacheKey(Content(<<[k |-> "title", v |-> "a"]>>), "en", "fr"),
                  result |-> r, timestamp |-> 0] :
                    r \in ObjectResults(Content(<<[k |-> "title", v |-> "a"]>>), "en", "ar")}]

CacheOf(entries) ==
    [k \in {e.key : e \in entries} |->
        LET e == CHOOSE x \in entries : x.key = k
        IN [result |-> e.result, timestamp |-> e.timestamp]]

WarmCaches ==
    {CacheOf(T \cup O) : T \in {{}} \cup {{e} : e \in WarmEntries.text},
                         O \in {{}} \cup {{e} : e \in WarmEntries.object}}

WarmInit ==
    /\ IngestInit
    /\ translationCache \in WarmCaches
    /\ now = 0
    /\ ticks = 0
    /\ reqs = <<>>
    /\ seq = 0

LookupNext ==
    \/ Tick
    \/ LocalizeText
    \/ LocalizeObject

SpecLookup == WarmInit /\ [][LookupNext]_vars

-----------------------------------------------------------------------------
(* Properties of the ingestion handlers *)

CallsOf(op) == {i \in DOMAIN calls : calls[i].op = op}

InsertSucceeded == \E i \in CallsOf("insert") : calls[i].ok
InsertFailed    == \E i \in CallsOf("insert") : ~calls[i].ok

\* C1: on each of /ingest, /log and /track-404, once the quota check answered
\* not-allowed the request makes no store insert and sends no notification,
\* and it ends at once with status 429 and a body of status "error".
C1_RejectedNeverInserts ==
    isAllowed = Bool(FALSE) =>
        /\ CallsOf("insert") = {}
        /\ CallsOf("notify") = {}
        /\ inserted = Undefined
        /\ pc = "done"
        /\ httpStatus = 429
        /\ response = [status |-> "error", message |-> QuotaMessage(kind)]

C1_Witness ==
    /\ pc = "done"
    /\ kind = "track404"
    /\ quotaAnswer = "denied"
    /\ isAllowed = Bool(FALSE)
    /\ httpStatus = 429

\* C2: on each endpoint a request whose store insert threw ends with a body
\* of status "error" and a server-error (5xx) HTTP status code.
C2_InsertFailureIsServerError ==
    (pc = "done" /\ InsertFailed) =>
        /\ response.status = "error"
        /\ httpStatus >= 500
        /\ httpStatus <= 599

\* C3: checkQuota fails open: it answers false only when the entitlement
\* service explicitly answered allowed=false, and true on a thrown error and
\* on a response without a usable data.allowed.
C3_QuotaFailsOpen ==
    isAllowed # Undefined =>
        (isAllowed = Bool(FALSE) <=> quotaAnswer = "denied")

\* C6: for every event kind the row handed to the store insert is the output
\* of the null sanitizer, and none of its fields is undefined.
C6_InsertedRowIsSanitized ==
    inserted # Undefined =>
        /\ cleaned # Undefined
        /\ inserted.row = cleaned
        /\ \A f \in DOMAIN inserted.row.v : inserted.row.v[f].t # "undefined"

\* C7: in the record of /ingest and /track-404 every enrichment field the
\* caller supplied (with a value that is not null or empty) keeps the
\* caller's value, and device_type is "desktop" when neither the caller nor
\* the parser gives one.
C7_CallerValuesKept ==
    (kind \in {"ingest", "track404"} /\ data # Undefined) =>
        /\ \A f \in EnrichmentFields \cap DOMAIN body :
              Truthy(body[f]) => data.v[f] = body[f]
        /\ (/\ kind = "ingest"
            /\ "device_type" \notin DOMAIN body
            /\ UAParser(uaHeader).device.type = Undefined)
           => data.v["device_type"] = Str("desktop")

\* C8: a request whose store insert succeeded ends with {status: "success",
\* id} and an unchanged status code, whether its notifications were sent or
\* failed.
C8_SuccessDespiteNotification ==
    (pc = "done" /\ InsertSucceeded) =>
        /\ response = [status |-> "success", id |-> inserted.row.v.id]
        /\ httpStatus = 200

C8_Witness ==
    /\ pc = "done"
    /\ InsertSucceeded
    /\ \E i \in CallsOf("notify") : ~calls[i].ok
    /\ response.status = "success"

\* the order of the handler's own external calls in a sequence h of calls
Rank(op) == CASE op = "quota" -> 1 [] op = "geo" -> 2 [] op = "insert" -> 3 [] OTHER -> 4

PipelineOrder(h) ==
    /\ \A i, j \in DOMAIN h : i < j =>
          /\ Rank(h[i].op) <= Rank(h[j].op)
          /\ h[j].op # "notify" => Rank(h[i].op) < Rank(h[j].op)
    /\ \A j \in DOMAIN h : h[j].op = "insert" =>
          (kind # "log" <=> \E i \in 1..(j - 1) : h[i].op = "geo")
    /\ \A j \in DOMAIN h : h[j].op = "notify" =>
          \E i \in 1..(j - 1) : h[i].op = "insert" /\ h[i].ok
    /\ h # <<>> => h[1].op = "quota"
    /\ pc \in {"geo", "insert", "notify_user", "notify_client", "done"} =>
          Cardinality({i \in DOMAIN h : h[i].op = "quota"}) = 1

\* C9 as stated: the quota check is made once and before any other external
\* call of the request, then geo lookup (error and not-found kinds), then the
\* insert, then notifications, which follow a successful insert only.
C9_QuotaBeforeEveryCall == PipelineOrder(calls)

IsHandlerCall(c) == c.op # "auth"

\* C9, amended: the same order holds of the calls the handler makes; the one
\* call that may precede the quota check is the user lookup of the derive
\* hook, made first and only for a request that carries an access token.
C9_HandlerCallsInOrder ==
    /\ PipelineOrder(SelectSeq(calls, IsHandlerCall))
    /\ \A i \in CallsOf("auth") : i = 1 /\ hasToken

C9_Witness ==
    /\ pc = "done"
    /\ kind = "ingest"
    /\ Len(calls) = 5
    /\ calls[1].op = "auth"
    /\ calls[5].op = "notify"

-----------------------------------------------------------------------------
(* Properties of the translation cache *)

\* the requests that passed validation
Valid == {i \in DOMAIN reqs : reqs[i].http # 400}

\* identical (content, sourceLocale, targetLocale), on the same endpoint
SameInputs(a, b) ==
    /\ a.endpoint = b.endpoint
    /\ a.content = b.content
    /\ a.sourceLocale = b.sourceLocale
    /\ a.targetLocale = b.targetLocale

\* request i wrote its result to the cache before request j looked its key up
StoredBefore(i, j) == reqs[i].storeSeq # 0 /\ reqs[i].storeSeq < reqs[j].lookupSeq

\* request i made the last write under j's cache key before j's lookup
LastWriter(i, j) ==
    /\ StoredBefore(i, j)
    /\ reqs[i].cacheKey = reqs[j].cacheKey
    /\ \A k \in Valid : (StoredBefore(k, j) /\ reqs[k].cacheKey = reqs[j].cacheKey)
                            => reqs[k].storeSeq <= reqs[i].storeSeq

LookupStep == Len(reqs') = Len(reqs) + 1 /\ reqs'[Len(reqs')].http # 400

\* C5: a lookup serves an entry only while its age is below CACHE_DURATION;
\* a lookup that finds an entry of that age or older serves nothing and
\* removes that key; every other key keeps its entry.
C5_ExpiredNeverServed ==
    [][LookupStep =>
        LET r == reqs'[Len(reqs')]
            k == r.cacheKey
            expired == k \in DOMAIN translationCache
                       /\ now - translationCache[k].timestamp >= CACHE_DURATION
        IN /\ r.cachedResult # Null =>
                 /\ k \in DOMAIN translationCache
                 /\ now - translationCache[k].timestamp < CACHE_DURATION
                 /\ r.cachedResult = translationCache[k].result
           /\ expired => r.cachedResult = Null /\ k \notin DOMAIN translationCache'
           /\ ~expired => DOMAIN translationCache' = DOMAIN translationCache
           /\ \A o \in DOMAIN translationCache \ {k} :
                 o \in DOMAIN translationCache' /\ translationCache'[o] = translationCache[o]
           /\ DOMAIN translationCache' \subseteq DOMAIN translationCache
    ]_vars

C5_Witness ==
    \E j \in Valid :
        /\ reqs[j].age >= CACHE_DURATION
        /\ reqs[j].state = "awaiting"
        /\ reqs[j].cacheKey \notin DOMAIN translationCache
        /\ DOMAIN translationCache # {}

\* C10: a cache hit serves only a result stored by an earlier request with
\* the identical input, source locale and target locale on the same endpoint.
C10_HitServesOwnInputs ==
    \A j \in Valid :
        reqs[j].hit => \E i \in Valid : LastWriter(i, j) /\ SameInputs(reqs[i], reqs[j])

=============================================================================
